---- MODULE Spec2Model ----
(***************************************************************************)
(* LMSR prediction market (src/src/lmsr.rs, src/src/market.rs).            *)
(*                                                                         *)
(* The market keeps u64 share counts and f64 liquidity / market_volume.    *)
(* Both number types are modelled with reduced width:                      *)
(*   - u64 is an unsigned integer of U64Bits bits (wraps modulo 2^U64Bits  *)
(*     in a release build, panics on overflow in a debug build);           *)
(*   - f64 is a binary floating-point number with MantBits significant     *)
(*     bits, smallest step 2^-FracBits and magnitudes below 2^MaxExp,      *)
(*     with +inf, -inf and NaN, rounding to nearest, ties to even.         *)
(* A finite float is represented by the integer  value * 2^FracBits.       *)
(***************************************************************************)
EXTENDS Integers, Sequences, FiniteSets, TLC

\* ------------------------------------------------------------------ bounds
\* width of the reduced u64
U64Bits == 2
\* significant bits of the reduced f64
MantBits == 5
\* the reduced f64 has steps of 2^-FracBits near zero
FracBits == 9
\* finite reduced f64 values are below 2^MaxExp in magnitude
MaxExp == 4
\* number of calls made on one market
MaxCalls == 4

\* ------------------------------------------------------------------- u64
MaxU64 == 2^U64Bits - 1
U64 == 0..MaxU64

\* ------------------------------------------------------------------- f64
One == 2^FracBits
PosInf == 2^(MaxExp + FracBits)
NegInf == -PosInf
NaN == PosInf + 1

IsNaN(x) == x = NaN
IsFinite(x) == x > NegInf /\ x < PosInf
Abs(n) == IF n < 0 THEN -n ELSE n
Sgn(n) == IF n < 0 THEN -1 ELSE 1

\* smallest e >= 0 with q < 2^(MantBits + e)
RECURSIVE ExpOf(_, _)
ExpOf(q, e) == IF q < 2^(MantBits + e) THEN e ELSE ExpOf(q, e + 1)

\* the float nearest to num/den (in units of 2^-FracBits), ties to even;
\* den > 0
RoundQ(num, den) ==
    LET a == Abs(num)
        q == a \div den
    IN  IF q >= PosInf THEN Sgn(num) * PosInf
        ELSE LET e == ExpOf(q, 0)
                 step == den * 2^e
                 m == a \div step
                 r == a % step
                 up == (2 * r > step) \/ (2 * r = step /\ m % 2 = 1)
                 v == (IF up THEN m + 1 ELSE m) * 2^e
             IN  IF v >= PosInf THEN Sgn(num) * PosInf ELSE Sgn(num) * v

\* f64 negation
FNeg(x) == IF IsNaN(x) THEN NaN ELSE -x

\* f64 addition
FAdd(x, y) ==
    IF IsNaN(x) \/ IsNaN(y) THEN NaN
    ELSE IF ~IsFinite(x) THEN (IF ~IsFinite(y) /\ y # x THEN NaN ELSE x)
    ELSE IF ~IsFinite(y) THEN y
    ELSE RoundQ(x + y, 1)

\* f64 subtraction
FSub(x, y) == FAdd(x, FNeg(y))

\* f64 multiplication
FMul(x, y) ==
    IF IsNaN(x) \/ IsNaN(y) THEN NaN
    ELSE IF ~IsFinite(x) \/ ~IsFinite(y)
         THEN (IF x = 0 \/ y = 0 THEN NaN ELSE Sgn(x) * Sgn(y) * PosInf)
    ELSE RoundQ(x * y, One)

\* f64 division
FDiv(x, y) ==
    IF IsNaN(x) \/ IsNaN(y) THEN NaN
    ELSE IF ~IsFinite(x)
         THEN (IF ~IsFinite(y) THEN NaN ELSE Sgn(x) * Sgn(y) * PosInf)
    ELSE IF ~IsFinite(y) THEN 0
    ELSE IF y = 0 THEN (IF x = 0 THEN NaN ELSE Sgn(x) * PosInf)
    ELSE RoundQ(Sgn(y) * x * One, Abs(y))

\* f64 comparisons: every comparison with NaN is false
FLt(x, y) == ~IsNaN(x) /\ ~IsNaN(y) /\ x < y
FGe(x, y) == ~IsNaN(x) /\ ~IsNaN(y) /\ x >= y
FEq(x, y) == ~IsNaN(x) /\ ~IsNaN(y) /\ x = y

\* `q as f64`
U64ToF64(q) == RoundQ(q * One, 1)

\* Taylor series of e^x for finite 0 <= x < MaxExp, accumulated in units of
\* 2^-FracBits; each term is monotone in x, PosInf once the sum overflows
RECURSIVE ExpSeries(_, _, _, _)
ExpSeries(x, k, term, sum) ==
    IF sum >= PosInf THEN PosInf
    ELSE IF term = 0 THEN sum
    ELSE LET next == (term * x) \div (k * One)
         IN  ExpSeries(x, k + 1, next, sum + next)

\* e^x before rounding, for finite x >= 0
ExpFix(x) == IF x >= MaxExp * One THEN PosInf ELSE ExpSeries(x, 1, One, One)

\* the largest y in lo..hi with ExpFix(y) <= s  (ExpFix(lo) <= s)
RECURSIVE LnSearch(_, _, _)
LnSearch(s, lo, hi) ==
    IF lo = hi THEN lo
    ELSE LET mid == (lo + hi + 1) \div 2
         IN  IF ExpFix(mid) <= s THEN LnSearch(s, mid, hi)
             ELSE LnSearch(s, lo, mid - 1)

\* ln(s) before rounding, for finite s >= 1
LnFix(s) == LnSearch(s, 0, MaxExp * One)

\* ln(r) before rounding, for r >= 1 that may exceed the finite range
\* (the reciprocal of a small float): ln(r) = ln(r / 2) + ln(2)
RECURSIVE LnWide(_)
LnWide(r) ==
    IF r < PosInf THEN LnFix(r) ELSE LnWide(r \div 2) + LnFix(2 * One)

\* f64::exp
FExp(x) ==
    IF IsNaN(x) THEN NaN
    ELSE IF x = PosInf THEN PosInf
    ELSE IF x = NegInf THEN 0
    ELSE IF x >= 0 THEN RoundQ(ExpFix(x), 1)
    ELSE LET p == ExpFix(-x)
         IN  IF p >= PosInf THEN 0 ELSE RoundQ(One * One, p)

\* f64::ln
FLn(s) ==
    IF IsNaN(s) \/ s < 0 THEN NaN
    ELSE IF s = 0 THEN NegInf
    ELSE IF s = PosInf THEN PosInf
    ELSE IF s >= One THEN RoundQ(LnFix(s), 1)
    ELSE -RoundQ(LnWide((One * One) \div s), 1)


\* ------------------------------------------------------------ market.rs
\* enum BinaryOutcome { Yes, No }, in declaration order (T::iter())
BinaryOutcome == <<"Yes", "No">>
\* the enums LmsrMarket<T> is instantiated with: the crate's BinaryOutcome
\* and an enum with a single variant, which satisfies the same trait bounds
OutcomeEnums == {BinaryOutcome, <<"Only">>}

VARIABLE
    T                 \* the market's outcome enum, in declaration order

\* T::COUNT
COUNT == Len(T)
\* the values of T
Outcome == {T[k] : k \in 1..COUNT}
\* Option<T>::None
None == "None"

\* -------------------------------------------------------------- lmsr.rs
\* the liquidity arguments the market is created with: 1.0 and 2.0
Liquidities == {One, 2 * One}

\* the amount arguments buy and sell are called with
Amounts == {0, 1, 2, MaxU64}

VARIABLES
    shares,           \* Vec<u64>, indexed 0..COUNT-1
    liquidity,        \* f64
    resolved,         \* Option<T>
    market_volume,    \* f64
    overflow_checks,  \* build setting: TRUE panics on u64 overflow, FALSE wraps
    ret,              \* the last call: operation, arguments and result
    pre,              \* shares, market_volume and resolved before the last call
    total,            \* the caller's running f64 total of buy costs minus sell proceeds
    calls,            \* number of calls made so far
    dto               \* the LmsrMarketDTO records at the persistence boundary:
                      \* <<>> or one record

vars == <<T, shares, liquidity, resolved, market_volume, overflow_checks, ret,
          pre, total, calls, dto>>
market == <<shares, liquidity, resolved, market_volume>>

\* LmsrMarket::outcome_index: zero-based position in T::iter()
outcome_index(outcome) ==
    (CHOOSE k \in 1..COUNT : T[k] = outcome) - 1

\* shares.iter().map(|&q| (q as f64 / self.liquidity).exp()).sum(),
\* added left to right starting from 0.0; k is the number of entries added
RECURSIVE SumExp(_, _, _)
SumExp(l, s, k) ==
    IF k = 0 THEN 0
    ELSE FAdd(SumExp(l, s, k - 1), FExp(FDiv(U64ToF64(s[k - 1]), l)))

\* LmsrMarket::cost with self.liquidity = l
cost(l, s) == FMul(l, FLn(SumExp(l, s, COUNT)))

\* Result<f64, LmsrError> of a call, with the call's name and arguments
Ok(op, outcome, amount, v) ==
    [op |-> op, outcome |-> outcome, amount |-> amount,
     ok |-> TRUE, val |-> v, err |-> "none"]
Err(op, outcome, amount, e) ==
    [op |-> op, outcome |-> outcome, amount |-> amount,
     ok |-> FALSE, val |-> 0, err |-> e]

\* the call did not return: the thread panicked
Aborted == ret.err = "panic"

\* a caller makes the next call: the previous one returned
Call ==
    /\ ~Aborted
    /\ calls < MaxCalls
    /\ calls' = calls + 1
    /\ UNCHANGED <<T, dto>>

Snapshot == [shares |-> shares, market_volume |-> market_volume,
             resolved |-> resolved]

\* LmsrMarket::new(liquidity)
new(l) ==
    /\ shares = [i \in 0..COUNT - 1 |-> 0]
    /\ liquidity = l
    /\ resolved = None
    /\ market_volume = 0

\* the market has just been created: no call has been made on it
Created ==
    /\ overflow_checks \in BOOLEAN
    /\ ret = Ok("new", None, 0, 0)
    /\ pre = [shares |-> [i \in 0..COUNT - 1 |-> 0], market_volume |-> 0,
              resolved |-> None]
    /\ total = 0
    /\ calls = 0

\* LmsrMarket::<BinaryOutcome>::new(liquidity) with a positive liquidity
Init ==
    /\ T = BinaryOutcome
    /\ \E l \in Liquidities : new(l)
    /\ Created
    /\ dto = <<>>

\* bug: the check is inverted (is_none)
is_resolved_inverted == resolved = None

\* bug: only a market resolved to the first outcome is closed
is_resolved_first_only == resolved = T[1]

\* self.resolved.is_some()
is_resolved == resolved # None

\* new_shares[i] += amount overflows the u64
add_overflows(q, amount) == q + amount > MaxU64

\* new_shares[i] += amount without overflow checks
wrapping_add(q, amount) == (q + amount) % (MaxU64 + 1)

\* amount > self.shares[i]
insufficient(q, amount) == amount > q

\* bug: the guard looks at the volume before the proceeds are taken off
negative_capitalization_before(volume, proceeds) == FLt(volume, 0)

\* self.market_volume - (current_cost - new_cost) < 0.0
negative_capitalization(volume, proceeds) == FLt(FSub(volume, proceeds), 0)

\* the body of LmsrMarket::price with self.liquidity = l and self.shares = s
price_of(l, s, outcome) ==
    LET i == outcome_index(outcome)
        q_i == U64ToF64(s[i])
        exp_qi == FExp(FDiv(q_i, l))
        denom == SumExp(l, s, COUNT)
    IN  FDiv(exp_qi, denom)

\* LmsrMarket::price
price(outcome) == price_of(liquidity, shares, outcome)

Price(outcome) ==
    /\ Call
    /\ ret' = Ok("price", outcome, 0, price(outcome))
    /\ pre' = Snapshot
    /\ UNCHANGED <<shares, liquidity, resolved, market_volume,
                   overflow_checks, total>>

\* LmsrMarket::buy
Buy(outcome, amount) ==
    /\ Call
    /\ pre' = Snapshot
    /\ UNCHANGED <<liquidity, resolved, overflow_checks>>
    /\ IF is_resolved
       THEN /\ ret' = Err("buy", outcome, amount, "Resolved")
            /\ UNCHANGED <<shares, market_volume, total>>
       ELSE LET current_cost == cost(liquidity, shares)
                i == outcome_index(outcome)
            IN  IF add_overflows(shares[i], amount) /\ overflow_checks
                THEN \* new_shares[i] += amount panics
                     /\ ret' = Err("buy", outcome, amount, "panic")
                     /\ UNCHANGED <<shares, market_volume, total>>
                ELSE LET new_shares ==
                             [shares EXCEPT
                                  ![i] = wrapping_add(shares[i], amount)]
                         new_cost == cost(liquidity, new_shares)
                         paid == FSub(new_cost, current_cost)
                     IN  /\ shares' = new_shares
                         /\ market_volume' = FAdd(market_volume, paid)
                         /\ ret' = Ok("buy", outcome, amount, paid)
                         /\ total' = FAdd(total, paid)

\* LmsrMarket::sell
Sell(outcome, amount) ==
    /\ Call
    /\ pre' = Snapshot
    /\ UNCHANGED <<liquidity, resolved, overflow_checks>>
    /\ IF is_resolved
       THEN /\ ret' = Err("sell", outcome, amount, "Resolved")
            /\ UNCHANGED <<shares, market_volume, total>>
       ELSE LET i == outcome_index(outcome)
            IN  IF insufficient(shares[i], amount)
                THEN /\ ret' = Err("sell", outcome, amount,
                                   "InsufficientShares")
                     /\ UNCHANGED <<shares, market_volume, total>>
                ELSE LET current_cost == cost(liquidity, shares)
                         new_shares ==
                             [shares EXCEPT ![i] = shares[i] - amount]
                         new_cost == cost(liquidity, new_shares)
                         proceeds == FSub(current_cost, new_cost)
                     IN  IF negative_capitalization(market_volume, proceeds)
                         THEN /\ ret' = Err("sell", outcome, amount,
                                            "NegativeMarketCapitalization")
                              /\ UNCHANGED <<shares, market_volume, total>>
                         ELSE /\ market_volume' =
                                     FSub(market_volume, proceeds)
                              /\ shares' = new_shares
                              /\ ret' = Ok("sell", outcome, amount, proceeds)
                              /\ total' = FSub(total, proceeds)

\* bug: the first resolution wins, a later one is ignored
resolve_first_wins(winning_outcome) ==
    IF resolved # None THEN resolved ELSE winning_outcome

\* self.resolved = Some(winning_outcome)
resolve(winning_outcome) == winning_outcome

\* LmsrMarket::resolve
Resolve(winning_outcome) ==
    /\ Call
    /\ pre' = Snapshot
    /\ resolved' = resolve(winning_outcome)
    /\ ret' = Ok("resolve", winning_outcome, 0, 0)
    /\ UNCHANGED <<shares, liquidity, market_volume, overflow_checks, total>>

\* the body of LmsrMarket::payout_per_share with self.shares = s and
\* self.market_volume = volume
payout_of(s, volume, outcome) ==
    LET i == outcome_index(outcome)
        amount == s[i]
    IN  IF amount = 0
        THEN Err("payout_per_share", outcome, 0, "InsufficientShares")
        ELSE Ok("payout_per_share", outcome, 0,
                FDiv(volume, U64ToF64(amount)))

\* bug: the volume is returned without dividing by the share count
payout_per_share_undivided(outcome) ==
    LET i == outcome_index(outcome)
        amount == shares[i]
    IN  IF amount = 0
        THEN Err("payout_per_share", outcome, 0, "InsufficientShares")
        ELSE Ok("payout_per_share", outcome, 0, market_volume)

\* bug: the payout is refused while the market is unresolved or for an
\* outcome that did not win
payout_per_share_winner_only(outcome) ==
    LET i == outcome_index(outcome)
        amount == shares[i]
    IN  IF amount = 0 \/ resolved # outcome
        THEN Err("payout_per_share", outcome, 0, "InsufficientShares")
        ELSE Ok("payout_per_share", outcome, 0,
                FDiv(market_volume, U64ToF64(amount)))

\* LmsrMarket::payout_per_share
payout_per_share(outcome) == payout_of(shares, market_volume, outcome)

PayoutPerShare(outcome) ==
    /\ Call
    /\ pre' = Snapshot
    /\ ret' = payout_per_share(outcome)
    /\ UNCHANGED <<shares, liquidity, resolved, market_volume,
                   overflow_checks, total>>

Next ==
    \/ \E o \in Outcome : Price(o)
    \/ \E o \in Outcome, a \in Amounts : Buy(o, a)
    \/ \E o \in Outcome, a \in Amounts : Sell(o, a)
    \/ \E o \in Outcome : Resolve(o)
    \/ \E o \in Outcome : PayoutPerShare(o)

Spec == Init /\ [][Next]_vars

\* ------------------------------------------- new with any f64 argument
\* f64 values new can be called with: -1.0, 0.0, 1.0 and NaN
AnyLiquidities == {-One, 0, One, NaN}

\* LmsrMarket::<BinaryOutcome>::new(liquidity) with any liquidity
InitAnyLiquidity ==
    /\ T = BinaryOutcome
    /\ \E l \in AnyLiquidities : new(l)
    /\ Created
    /\ dto = <<>>

SpecAnyLiquidity == InitAnyLiquidity /\ [][Next]_vars

\* ------------------------------------------------ new over any enum T
\* LmsrMarket::<T>::new(liquidity) for the enums of OutcomeEnums
InitAnyOutcomes ==
    /\ T \in OutcomeEnums
    /\ \E l \in Liquidities : new(l)
    /\ Created
    /\ dto = <<>>

SpecAnyOutcomes == InitAnyOutcomes /\ [][Next]_vars

\* -------------------------------------------------------- LmsrMarketDTO
\* Vec<u64> values of a record: up to COUNT + 1 entries, each 0 or 1
ShareVecs == UNION {[0..n - 1 -> {0, 1}] : n \in 0..3}

\* the records a collaborator reads back from storage
DTOs == [shares : ShareVecs,
         liquidity : {-One, 0, One, NaN},
         resolved : {None} \cup {BinaryOutcome[k] : k \in 1..2},
         market_volume : {0, One}]

\* impl From<LmsrMarketDTO<T>> for LmsrMarket<T>; the record is moved into
\* the market
FromDTO ==
    /\ dto # <<>>
    /\ calls < MaxCalls
    /\ calls' = calls + 1
    /\ pre' = Snapshot
    /\ shares' = dto[1].shares
    /\ liquidity' = dto[1].liquidity
    /\ resolved' = dto[1].resolved
    /\ market_volume' = dto[1].market_volume
    /\ ret' = Ok("from", None, 0, 0)
    /\ dto' = <<>>
    /\ UNCHANGED <<T, overflow_checks, total>>

\* LmsrMarket::serialize, impl From<LmsrMarket<T>> for LmsrMarketDTO<T>; the
\* market is moved into the record (the model keeps its fields)
Serialize ==
    /\ dto = <<>>
    /\ calls < MaxCalls
    /\ calls' = calls + 1
    /\ pre' = Snapshot
    /\ dto' = <<[shares |-> shares, liquidity |-> liquidity,
                 resolved |-> resolved, market_volume |-> market_volume]>>
    /\ ret' = Ok("serialize", None, 0, 0)
    /\ UNCHANGED <<T, shares, liquidity, resolved, market_volume,
                   overflow_checks, total>>

\* a record read from storage is about to be converted
InitDTO ==
    /\ T = BinaryOutcome
    /\ \E l \in Liquidities : new(l)
    /\ Created
    /\ \E value \in DTOs : dto = <<value>>

NextDTO == FromDTO \/ Serialize

SpecDTO == InitDTO /\ [][NextDTO]_vars

\* ------------------------------------------------- exact arithmetic
\* The same market with its f64 fields read as real numbers. For a liquidity
\* of 1/ln(base) with an integer base, exp(q / liquidity) is base^q, and the
\* real number x is held as the positive rational e^(x / liquidity), a pair
\* <<numerator, denominator>> in lowest terms: x + y is the product of the
\* rationals, x - y their quotient, 0.0 is 1/1, and x < y compares them. The
\* variable liquidity holds the base.
Bases == {2, 3}

RECURSIVE GCD(_, _)
GCD(a, b) == IF b = 0 THEN a ELSE GCD(b, a % b)

\* n/d in lowest terms
Q(n, d) == LET g == GCD(n, d) IN <<n \div g, d \div g>>

\* 0.0
XZero == <<1, 1>>
\* x + y
XAdd(x, y) == Q(x[1] * y[1], x[2] * y[2])
\* x - y
XSub(x, y) == Q(x[1] * y[2], x[2] * y[1])
\* x < y
XLt(x, y) == x[1] * y[2] < y[1] * x[2]

\* shares.iter().map(|&q| (q as f64 / self.liquidity).exp()).sum() over the
\* first k entries: the sum of base^q
RECURSIVE SumPow(_, _, _)
SumPow(base, s, k) ==
    IF k = 0 THEN 0 ELSE SumPow(base, s, k - 1) + base^s[k - 1]

\* LmsrMarket::cost: liquidity * ln(sum)
cost_exact(base, s) == <<SumPow(base, s, COUNT), 1>>

\* LmsrMarket::<BinaryOutcome>::new(1 / ln(base))
InitExact ==
    /\ T = BinaryOutcome
    /\ shares = [i \in 0..COUNT - 1 |-> 0]
    /\ liquidity \in Bases
    /\ resolved = None
    /\ market_volume = XZero
    /\ overflow_checks \in BOOLEAN
    /\ ret = Ok("new", None, 0, XZero)
    /\ pre = [shares |-> [i \in 0..COUNT - 1 |-> 0], market_volume |-> XZero,
              resolved |-> None]
    /\ total = XZero
    /\ calls = 0
    /\ dto = <<>>

\* bug: the whole new cost is charged
paid_exact_new_cost(current_cost, new_cost) == new_cost

\* new_cost - current_cost
paid_exact(current_cost, new_cost) == XSub(new_cost, current_cost)

\* LmsrMarket::buy
BuyExact(outcome, amount) ==
    /\ Call
    /\ pre' = Snapshot
    /\ UNCHANGED <<liquidity, resolved, overflow_checks>>
    /\ IF is_resolved
       THEN /\ ret' = Err("buy", outcome, amount, "Resolved")
            /\ UNCHANGED <<shares, market_volume, total>>
       ELSE LET current_cost == cost_exact(liquidity, shares)
                i == outcome_index(outcome)
            IN  IF add_overflows(shares[i], amount) /\ overflow_checks
                THEN \* new_shares[i] += amount panics
                     /\ ret' = Err("buy", outcome, amount, "panic")
                     /\ UNCHANGED <<shares, market_volume, total>>
                ELSE LET new_shares ==
                             [shares EXCEPT
                                  ![i] = wrapping_add(shares[i], amount)]
                         new_cost == cost_exact(liquidity, new_shares)
                         paid == paid_exact(current_cost, new_cost)
                     IN  /\ shares' = new_shares
                         /\ market_volume' = XAdd(market_volume, paid)
                         /\ ret' = Ok("buy", outcome, amount, paid)
                         /\ total' = XAdd(total, paid)

\* bug: the guard also refuses a sale that takes the volume to exactly 0.0
negative_capitalization_exact_or_zero(volume, proceeds) ==
    ~XLt(XZero, XSub(volume, proceeds))

\* self.market_volume - (current_cost - new_cost) < 0.0
negative_capitalization_exact(volume, proceeds) ==
    XLt(XSub(volume, proceeds), XZero)

\* LmsrMarket::sell
SellExact(outcome, amount) ==
    /\ Call
    /\ pre' = Snapshot
    /\ UNCHANGED <<liquidity, resolved, overflow_checks>>
    /\ IF is_resolved
       THEN /\ ret' = Err("sell", outcome, amount, "Resolved")
            /\ UNCHANGED <<shares, market_volume, total>>
       ELSE LET i == outcome_index(outcome)
            IN  IF insufficient(shares[i], amount)
                THEN /\ ret' = Err("sell", outcome, amount,
                                   "InsufficientShares")
                     /\ UNCHANGED <<shares, market_volume, total>>
                ELSE LET current_cost == cost_exact(liquidity, shares)
                         new_shares ==
                             [shares EXCEPT ![i] = shares[i] - amount]
                         new_cost == cost_exact(liquidity, new_shares)
                         proceeds == XSub(current_cost, new_cost)
                     IN  IF negative_capitalization_exact(market_volume,
                                                          proceeds)
                         THEN /\ ret' = Err("sell", outcome, amount,
                                            "NegativeMarketCapitalization")
                              /\ UNCHANGED <<shares, market_volume, total>>
                         ELSE /\ market_volume' =
                                     XSub(market_volume, proceeds)
                              /\ shares' = new_shares
                              /\ ret' = Ok("sell", outcome, amount, proceeds)
                              /\ total' = XSub(total, proceeds)

NextExact ==
    \/ \E o \in Outcome, a \in Amounts : BuyExact(o, a)
    \/ \E o \in Outcome, a \in Amounts : SellExact(o, a)
    \/ \E o \in Outcome : Resolve(o)

SpecExact == InitExact /\ [][NextExact]_vars

\* ------------------------------------------------------------- claims
\* the step is a call of op (a call that panicked included)
Called(op) == calls' # calls /\ ret'.op = op
\* the step is a call of op that returned Ok
Returned(op) == Called(op) /\ ret'.ok

\* C1: on a resolved market buy and sell return Err(Resolved), for every
\* outcome and amount (for sell also when amount > shares[outcome]), and the
\* market is left as it was.
C1_ResolvedRejectsTrades ==
    [][(resolved # None /\ (Called("buy") \/ Called("sell")))
         => (ret'.err = "Resolved" /\ UNCHANGED market)]_vars

\* a sell of more than is held was answered with Resolved
C1_Witness ==
    /\ ret.op = "sell"
    /\ ret.err = "Resolved"
    /\ ret.amount > shares[outcome_index(ret.outcome)]
    /\ pre.resolved # None

\* C2: resolved changes at most once: once set it is never unset and never
\* holds a different outcome.
C2_ResolvedChangesAtMostOnce ==
    [][resolved # None => resolved' = resolved]_vars

\* C3: on an unresolved market a sell of more than is held returns
\* Err(InsufficientShares) and leaves the market as it was, and no call makes
\* a share count go below zero or wrap around: a count changes only by a
\* buy, by +amount, or by a sell, by -amount, as integers.
C3_InsufficientSharesAndNoWrap ==
    [][/\ (resolved = None /\ Called("sell")
             /\ ret'.amount > shares[outcome_index(ret'.outcome)])
          => (ret'.err = "InsufficientShares" /\ UNCHANGED market)
       /\ \A i \in 0..COUNT - 1 :
             \/ shares'[i] = shares[i]
             \/ /\ Returned("buy")
                /\ i = outcome_index(ret'.outcome)
                /\ shares'[i] = shares[i] + ret'.amount
             \/ /\ Returned("sell")
                /\ i = outcome_index(ret'.outcome)
                /\ shares'[i] = shares[i] - ret'.amount
                /\ shares'[i] >= 0]_vars

\* C4: market_volume >= 0 after every call.
C4_VolumeNonNegative == FGe(market_volume, 0)

\* C5: a successful buy(i, amount) on an unresolved market adds exactly amount
\* to shares[i], leaves the other counts, liquidity and resolved unchanged,
\* returns cost(shares after) - cost(shares before), which is >= 0, and adds
\* the returned value to market_volume.
C5_BuyEffect ==
    [][(resolved = None /\ Returned("buy")) =>
         LET i == outcome_index(ret'.outcome)
         IN  /\ shares' = [shares EXCEPT ![i] = shares[i] + ret'.amount]
             /\ UNCHANGED <<liquidity, resolved>>
             /\ ret'.val = FSub(cost(liquidity, shares'),
                                cost(liquidity, shares))
             /\ FGe(ret'.val, 0)
             /\ market_volume' = FAdd(market_volume, ret'.val)]_vars

\* C6: a successful sell(i, amount) on an unresolved market takes exactly
\* amount from shares[i], leaves the other counts, liquidity and resolved
\* unchanged, returns cost(shares before) - cost(shares after), which is
\* >= 0, and subtracts the returned value from market_volume.
C6_SellEffect ==
    [][(resolved = None /\ Returned("sell")) =>
         LET i == outcome_index(ret'.outcome)
         IN  /\ shares' = [shares EXCEPT ![i] = shares[i] - ret'.amount]
             /\ UNCHANGED <<liquidity, resolved>>
             /\ ret'.val = FSub(cost(liquidity, shares),
                                cost(liquidity, shares'))
             /\ FGe(ret'.val, 0)
             /\ market_volume' = FSub(market_volume, ret'.val)]_vars

\* C7: from an unresolved state buy(i, amount) succeeds, and the
\* sell(i, amount) that immediately follows it succeeds, returns exactly the
\* value the buy returned and restores shares and market_volume to their
\* values before the buy.
C7_BuySellRoundTrip ==
    [][/\ (resolved = None /\ Called("buy")) => ret'.ok
       /\ (/\ ret.op = "buy"
           /\ pre.resolved = None
           /\ Called("sell")
           /\ ret'.outcome = ret.outcome
           /\ ret'.amount = ret.amount)
          => /\ ret'.ok
             /\ FEq(ret'.val, ret.val)
             /\ shares' = pre.shares
             /\ FEq(market_volume', pre.market_volume)]_vars

\* C8 as stated: after resolve(w) with shares[w] > 0,
\* payout_per_share(w) * shares[w] equals the total of the values returned by
\* the buys minus those returned by the sells, which equals market_volume.
C8_PayoutTimesSharesIsVolume ==
    [][(/\ Called("payout_per_share")
        /\ resolved = ret'.outcome
        /\ shares[outcome_index(ret'.outcome)] > 0)
         => /\ ret'.ok
            /\ FEq(FMul(ret'.val,
                        U64ToF64(shares[outcome_index(ret'.outcome)])),
                   total)
            /\ FEq(total, market_volume)]_vars

\* C8 as amended: after resolve(w) with shares[w] > 0, payout_per_share(w)
\* returns the f64 quotient market_volume / shares[w], and market_volume is
\* the same f64 value as the caller's running total (each buy's return added,
\* each sell's return subtracted, in call order); multiplying the quotient
\* back by shares[w] gives market_volume only up to rounding.
C8_PayoutIsVolumePerShare ==
    [][(/\ Called("payout_per_share")
        /\ resolved = ret'.outcome
        /\ shares[outcome_index(ret'.outcome)] > 0)
         => /\ ret'.ok
            /\ ret'.val =
                   FDiv(total, U64ToF64(shares[outcome_index(ret'.outcome)]))
            /\ total = market_volume]_vars

\* a finite payout of the winning outcome that, multiplied back, misses
\* market_volume
C8_Witness ==
    /\ ret.op = "payout_per_share"
    /\ ret.ok
    /\ resolved = ret.outcome
    /\ IsFinite(market_volume)
    /\ market_volume > 0
    /\ FMul(ret.val, U64ToF64(shares[outcome_index(ret.outcome)]))
           # market_volume

\* C9: payout_per_share(outcome) returns Err(InsufficientShares) exactly when
\* shares[outcome] = 0 and otherwise market_volume / shares[outcome], whatever
\* resolved is, and leaves the market as it was.
C9_PayoutPerShare ==
    [][Called("payout_per_share") =>
         LET q == shares[outcome_index(ret'.outcome)]
         IN  /\ (q = 0) <=> (ret'.err = "InsufficientShares")
             /\ (q = 0) <=> ~ret'.ok
             /\ (q # 0) => ret'.val = FDiv(market_volume, U64ToF64(q))
             /\ UNCHANGED market]_vars

\* a payout was returned for an outcome that is not the resolved one
C9_Witness ==
    /\ ret.op = "payout_per_share"
    /\ ret.ok
    /\ resolved # None
    /\ resolved # ret.outcome
    /\ market_volume > 0

\* C10: on an unresolved market with amount <= shares[i]: if market_volume
\* minus the proceeds (cost before - cost after) is negative, sell returns
\* Err(NegativeMarketCapitalization) and leaves the market as it was; if it
\* is >= 0 the sell succeeds.
C10_NegativeCapitalizationGuard ==
    [][(/\ resolved = None
        /\ Called("sell")
        /\ ret'.amount <= shares[outcome_index(ret'.outcome)]) =>
         LET i == outcome_index(ret'.outcome)
             after == [shares EXCEPT ![i] = shares[i] - ret'.amount]
             proceeds == FSub(cost(liquidity, shares), cost(liquidity, after))
             rest == FSub(market_volume, proceeds)
         IN  /\ FLt(rest, 0) =>
                   /\ ret'.err = "NegativeMarketCapitalization"
                   /\ UNCHANGED market
             /\ FGe(rest, 0) => ret'.ok]_vars

\* a sell of shares that are held was refused with
\* NegativeMarketCapitalization
C10_Witness ==
    /\ ret.op = "sell"
    /\ ret.err = "NegativeMarketCapitalization"
    /\ ret.amount <= shares[outcome_index(ret.outcome)]
    /\ ret.amount > 0

RECURSIVE PriceSum(_)
PriceSum(k) ==
    IF k = 0 THEN 0 ELSE FAdd(PriceSum(k - 1), price(T[k]))

\* C12: in every unresolved state price(i) returns Ok for every outcome i,
\* each price lies strictly between 0 and 1, the prices sum to 1, and the
\* call leaves the market as it was.
C12_PricesNormalized ==
    [][(resolved = None /\ Called("price")) =>
         /\ ret'.ok
         /\ ret'.val = price(ret'.outcome)
         /\ \A o \in Outcome : FLt(0, price(o)) /\ FLt(price(o), One)
         /\ FEq(PriceSum(COUNT), One)
         /\ UNCHANGED market]_vars

\* C13: a new market prices every outcome at 0.5, and a successful
\* buy(i, amount) with amount > 0 strictly raises price(i) relative to the
\* price of every other outcome j (price(i)/price(j) grows), so that from
\* equal share counts price(i) > price(j) afterwards.
C13_BuyRaisesPrice ==
    [][/\ ret.op = "new" =>
            \A o \in Outcome : FEq(FMul(2 * One, price(o)), One)
       /\ (resolved = None /\ Returned("buy") /\ ret'.amount > 0) =>
            \A i, j \in Outcome :
                (i = ret'.outcome /\ j # i) =>
                    LET p_i == price_of(liquidity', shares', i)
                        p_j == price_of(liquidity', shares', j)
                    IN  /\ ~IsNaN(p_i) /\ ~IsNaN(p_j)
                        /\ p_i * price(j) > price(i) * p_j
                        /\ (shares[outcome_index(i)] =
                                shares[outcome_index(j)]) => FLt(p_j, p_i)]_vars

\* C14: converting a snapshot record into a live market rejects the record
\* unless its shares have exactly COUNT entries and its liquidity is > 0.
C14_SnapshotValidated ==
    [][Called("from") =>
         (ret'.ok <=> /\ Cardinality(DOMAIN dto[1].shares) = COUNT
                      /\ FLt(0, dto[1].liquidity))]_vars

\* C15: in every reachable state, whatever the argument of new was,
\* liquidity > 0, and no operation changes liquidity.
C15_LiquidityPositiveAndConstant ==
    [][/\ FLt(0, liquidity)
       /\ FLt(0, liquidity')
       /\ liquidity' = liquidity]_vars

\* C16: no market exists over fewer than 2 outcomes: every market has
\* COUNT >= 2, a shares vector of exactly COUNT entries, and outcome_index
\* maps the outcomes to distinct indices in 0..COUNT-1.
C16_AtLeastTwoOutcomes ==
    /\ COUNT >= 2
    /\ DOMAIN shares = 0..COUNT - 1
    /\ \A o \in Outcome : outcome_index(o) \in 0..COUNT - 1
    /\ \A o1, o2 \in Outcome :
           outcome_index(o1) = outcome_index(o2) => o1 = o2

\* C17: on an unresolved market buy(outcome, amount) returns Ok for every
\* u64 amount and adds amount to shares[outcome] without wrapping and without
\* aborting, also when the sum exceeds the largest u64.
C17_BuyNeverOverflows ==
    [][(resolved = None /\ Called("buy")) =>
         /\ ret'.ok
         /\ shares'[outcome_index(ret'.outcome)] =
                shares[outcome_index(ret'.outcome)] + ret'.amount]_vars

\* C18: in exact arithmetic, in every state reachable from new by buy, sell
\* and resolve, market_volume is cost(shares) - cost(all-zero shares),
\* whatever trades led to the current shares.
C18_VolumeIsCostDifference ==
    market_volume =
        XSub(cost_exact(liquidity, shares),
             cost_exact(liquidity, [i \in 0..COUNT - 1 |-> 0]))

\* shares of both outcomes are held after a buy that wrapped or a sale, at a
\* volume above 0.0
C18_Witness ==
    /\ calls >= 3
    /\ ret.ok
    /\ ret.op = "sell" \/ (ret.op = "buy" /\ shares[0] < pre.shares[0])
    /\ ret.amount > 0
    /\ \A i \in 0..COUNT - 1 : shares[i] > 0
    /\ XLt(XZero, market_volume)

\* C19: in exact arithmetic sell never returns NegativeMarketCapitalization:
\* on an unresolved market every sell with amount <= shares[outcome] returns
\* Ok.
C19_SellNeverNegative ==
    [][Called("sell") =>
         /\ ret'.err # "NegativeMarketCapitalization"
         /\ (resolved = None /\
             ret'.amount <= shares[outcome_index(ret'.outcome)]) => ret'.ok]_vars

\* everything bought was sold again and the volume is back at exactly 0.0
C19_Witness ==
    /\ ret.op = "sell"
    /\ ret.ok
    /\ ret.amount > 0
    /\ XLt(XZero, pre.market_volume)
    /\ market_volume = XZero
    /\ \A i \in 0..COUNT - 1 : shares[i] = 0

\* C20: from the first resolve on, shares and market_volume keep the values
\* they had at that resolve through every further buy, sell, resolve, price
\* and payout_per_share call, so price(o) and payout_per_share(o) return the
\* same result for every outcome o from then on.
C20_FrozenAfterResolve ==
    [][(resolved # None \/ Called("resolve")) =>
         /\ UNCHANGED <<shares, market_volume>>
         /\ \A o \in Outcome :
                /\ price_of(liquidity', shares', o) = price(o)
                /\ payout_of(shares', market_volume', o) = payout_per_share(o)
                /\ (resolved # None /\ Called("price") /\ ret'.outcome = o)
                       => ret' = Ok("price", o, 0, price(o))
                /\ (resolved # None /\ Called("payout_per_share")
                        /\ ret'.outcome = o) => ret' = payout_per_share(o)]_vars

\* a buy was refused on a resolved market that holds shares and volume
C20_Witness ==
    /\ calls = MaxCalls
    /\ resolved # None
    /\ pre.resolved = resolved
    /\ ret.op = "buy"
    /\ ret.amount > 0
    /\ ret.err = "Resolved"
    /\ market_volume > 0
    /\ \E i \in 0..COUNT - 1 : shares[i] > 0

====
